---- MODULE Spec2Model ----
(***************************************************************************)
(* Trigram language detection (franc / francAll) of SomeAB/somelang.       *)
(*                                                                         *)
(* Strings are sequences of characters; a character is a one-letter TLA+   *)
(* string.  The alphabet is a small abstraction of Unicode:                *)
(*   "a"  a lower-case Latin letter                                        *)
(*   "I"  U+0130 (capital I with dot above): a Latin letter whose          *)
(*        toLowerCase() is the TWO code units "i" U+0307 (written "i","^") *)
(*   "x"  a Cyrillic letter (a script with no language models)             *)
(*   " "  a space (matches no script expression)                           *)
(*   "|"  the separator of the compressed model strings                    *)
(* No character of the alphabet is a digit, so no trigram is an integer-   *)
(* like property key: Object.entries lists trigrams in insertion order.    *)
(* JavaScript numbers are modelled exactly: integers as integers, and the  *)
(* results of a division as rationals [n, d] in lowest terms with d > 0;   *)
(* d = 0 encodes the non-finite values (n = 1: +Infinity, n = -1:          *)
(* -Infinity, n = 0: NaN).  Every quotient the program forms has operands  *)
(* below 2^53 and a denominator of at most 2048*300, so two quotients that *)
(* differ as rationals differ as doubles and the order is preserved.       *)
(***************************************************************************)
EXTENDS Integers, Sequences, FiniteSets, TLC

VARIABLES
  data,         \* the compressed model data: script -> language -> 'tri|gra|ms'
  numericData,  \* the preprocessed store: script -> language -> trigram -> rank
  lastIndex,    \* lastIndex of each (global) regular expression of `expressions`
  pc,           \* "load" before the module has run, then "idle" / "returned"
  value,        \* the text of the call that has just returned
  options,      \* its options
  result,       \* what it returned or threw
  saved,        \* history: an earlier call kept by the caller, for comparison
  calls         \* the calls in progress, one per caller: position and local variables

vars == <<data, numericData, lastIndex, pc, value, options, result, saved, calls>>

(* ------------------------------ bounds -------------------------------- *)

\* longest text enumerated character by character
MaxTextLen == 2
\* longest raw trigram list of one language model
MaxModelLen == 2
\* longest tail behind the repeated part of a long text
MaxTailLen == 1

(* ------------------------- program constants -------------------------- *)

MAX_LENGTH == 2048
MIN_LENGTH == 10
MAX_DIFFERENCE == 300

(* ------------------------- JavaScript numbers ------------------------- *)

Abs(i) == IF i < 0 THEN -i ELSE i

Sign(i) == IF i < 0 THEN -1 ELSE IF i > 0 THEN 1 ELSE 0

RECURSIVE GCD(_, _)
GCD(a, b) == IF b = 0 THEN a ELSE GCD(b, a % b)

\* the rational n/d (d # 0) in lowest terms with a positive denominator
Rat(n, d) ==
  LET g == GCD(Abs(n), Abs(d))
  IN  [n |-> (Sign(d) * n) \div g, d |-> Abs(d) \div g]

Num(i) == [n |-> i, d |-> 1]

\* a / b on two integers; division by zero gives +-Infinity or NaN
JsDiv(a, b) == IF b = 0 THEN [n |-> Sign(a), d |-> 0] ELSE Rat(a, b)

\* 1 - q
OneMinus(q) == IF q.d = 0 THEN [n |-> -q.n, d |-> 0] ELSE Rat(q.d - q.n, q.d)

\* q || 0 : the falsy numbers are 0 and NaN
OrZero(q) == IF q.n = 0 THEN Num(0) ELSE q

\* p > q ; every comparison with NaN is false
Gt(p, q) ==
  IF p.d > 0 /\ q.d > 0 THEN p.n * q.d > q.n * p.d
  ELSE IF (p.d = 0 /\ p.n = 0) \/ (q.d = 0 /\ q.n = 0) THEN FALSE
  ELSE IF p.d = 0 /\ q.d = 0 THEN p.n > q.n
  ELSE IF p.d = 0 THEN p.n > 0
  ELSE q.n < 0

\* p >= q
Geq(p, q) ==
  /\ ~(p.d = 0 /\ p.n = 0)
  /\ ~(q.d = 0 /\ q.n = 0)
  /\ ~Gt(q, p)

(* ------------------------------ strings ------------------------------- *)

Alphabet == {"a", "I", "x", " "}

\* String.prototype.toLowerCase on one character
LowerChar(c) ==
  IF c = "I" THEN <<"i", "^">> ELSE <<c>>

\* String.prototype.toLowerCase, character by character
RECURSIVE toLowerCase(_)
toLowerCase(s) ==
  IF s = <<>> THEN <<>>
  ELSE IF Len(s) = 1 THEN LowerChar(s[1])
  ELSE LET h == Len(s) \div 2
       IN  toLowerCase(SubSeq(s, 1, h)) \o toLowerCase(SubSeq(s, h + 1, Len(s)))

\* variant: the text is not cut
sliceNothing(s, n) == s

\* s.slice(0, n)
Slice0(s, n) == SubSeq(s, 1, IF Len(s) < n THEN Len(s) ELSE n)

\* s.split('|') : the pieces between the separators, at least one piece
RECURSIVE splitFrom(_, _, _)
splitFrom(s, i, piece) ==
  IF i > Len(s) THEN <<piece>>
  ELSE IF s[i] = "|" THEN <<piece>> \o splitFrom(s, i + 1, <<>>)
  ELSE splitFrom(s, i + 1, Append(piece, s[i]))

split(s) == splitFrom(s, 1, <<>>)

\* the compressed form of a trigram list: its trigrams joined by '|'
RECURSIVE Join(_)
Join(l) ==
  IF l = <<>> THEN <<>>
  ELSE IF Len(l) = 1 THEN l[1]
  ELSE l[1] \o <<"|">> \o Join(Tail(l))

(* --------------------- script detection patterns ---------------------- *)

\* the keys of `expressions`, in definition order
expressions ==
  <<"cmn", "Latin", "Cyrillic", "Arabic", "ben", "Devanagari", "jpn",
    "kor", "tha", "hye", "ell", "Hebrew", "Ethiopic">>

\* does the character class of expressions[script] contain c
\* ("4E2D" is the one UTF-16 unit of a Han character: cmn and jpn both list it)
Matches(script, c) ==
  \/ script = "Latin" /\ c \in {"a", "I", "i"}
  \/ script = "Cyrillic" /\ c = "x"
  \/ script \in {"cmn", "jpn"} /\ c = "4E2D"

\* does an alternative of expressions[script] match the two units hi lo
\* ("D840" "DC00" is U+20000, which cmn lists as a surrogate pair)
MatchesPair(script, hi, lo) ==
  script = "cmn" /\ hi = "D840" /\ lo = "DC00"

(* -------------------------- model store ------------------------------- *)

\* trigrams[key] = v
Assign(f, k, v) == [t \in (DOMAIN f) \cup {k} |-> IF t = k THEN v ELSE f[t]]

\* while (weight--) trigrams[model[weight]] = weight
RECURSIVE rankLoop(_, _, _)
rankLoop(model, weight, trigrams) ==
  IF weight = 0 THEN trigrams
  ELSE rankLoop(model, weight - 1, Assign(trigrams, model[weight], weight - 1))

\* one language: the compressed string to its rank table
rankTable(raw) ==
  LET model == split(raw) IN rankLoop(model, Len(model), <<>>)

\* the preprocessing loop: numericData[script][name] = trigrams
preprocess(d) ==
  [s \in DOMAIN d |->
    [script |-> d[s].script,
     languages |->
       [l \in DOMAIN d[s].languages |->
         [name |-> d[s].languages[l].name,
          trigrams |-> rankTable(d[s].languages[l].model)]]]]

\* the raw data enumerated: the trigrams a model may list
ModelTrigrams == {<<" ", "a", " ">>, <<" ", "i", "^">>}

ModelLists == UNION {[1..n -> ModelTrigrams] : n \in 0..MaxModelLen}

RawModels == {Join(l) : l \in ModelLists}

\* the language names of the Latin script, in the order of `data`
LatinNames == <<"spa", "eng">>

\* data = { script: { ... } } with the given compressed models, named in order
ScriptData(script, models) ==
  <<[script |-> script,
     languages |-> [l \in 1..Len(models) |-> [name |-> LatinNames[l], model |-> models[l]]]]>>

LatinData(models) == ScriptData("Latin", models)

\* the raw data enumerated: Latin with no language, with one language, and with
\* two (the first model any list, the second at most one trigram)
RawStores ==
  {LatinData(<<>>)}
    \cup {LatinData(<<m>>) : m \in RawModels}
    \cup {LatinData(<<m, n>>) : m \in RawModels, n \in {<<>>} \cup ModelTrigrams}

(* ------------------------- trigram utilities -------------------------- *)

\* normalized.slice(i, i + 3)   (i is 1-based here)
trigramAt(normalized, i) == SubSeq(normalized, i, i + 2)

\* the rounds of  for (let i = 0; i < normalized.length - 2; i++)
positions(normalized) == 1..(Len(normalized) - 2)

\* the rounds that insert a new key into the object `trigrams`
insertions(normalized) ==
  {i \in positions(normalized) :
     \A j \in 1..(i - 1) : trigramAt(normalized, j) # trigramAt(normalized, i)}

\* trigrams[trigram] after the loop: one more for every round that meets it
countOf(normalized, trigram) ==
  Cardinality({i \in positions(normalized) : trigramAt(normalized, i) = trigram})

\* Object.entries(trigrams) after the loop
\*   trigrams[trigram] = (trigrams[trigram] || 0) + 1
\* every trigram once, in the order the keys were inserted, with its count
countLoop(normalized) ==
  LET first == insertions(normalized)
  IN  [k \in 1..Cardinality(first) |->
        LET i == CHOOSE n \in first : Cardinality({j \in first : j < n}) = k - 1
        IN  <<trigramAt(normalized, i), countOf(normalized, trigramAt(normalized, i))>>]

\* insert e behind every element that does not sort after it (stable)
RECURSIVE insertByCount(_, _)
insertByCount(sorted, e) ==
  IF sorted = <<>> THEN <<e>>
  ELSE IF e[2] - Head(sorted)[2] > 0 THEN <<e>> \o sorted
  ELSE <<Head(sorted)>> \o insertByCount(Tail(sorted), e)

\* .sort((a, b) => b[1] - a[1]) : most frequent first, stable
RECURSIVE sortByCount(_, _)
sortByCount(list, sorted) ==
  IF list = <<>> THEN sorted
  ELSE sortByCount(Tail(list), insertByCount(sorted, Head(list)))

asTuples(text) ==
  LET normalized == toLowerCase(<<" ">> \o text \o <<" ">>)
  IN  sortByCount(countLoop(normalized), <<>>)

(* ------------------------- utility functions -------------------------- *)

\* variant: the one language is reported with confidence 0
singleLanguageUnsure(language) == <<<<language, 0>>>>

singleLanguageTuples(language) == <<<<language, 1>>>>

\* variant: "undetermined" reported as an empty list
undEmpty == <<>>

und == singleLanguageTuples("und")

\* an ordinary return of a list of [code, number] pairs, the numbers as JS numbers
Returned(list) ==
  [err |-> "none", list |-> [i \in 1..Len(list) |-> <<list[i][1], Num(list[i][2])>>]]

\* an uncaught TypeError (reading a property of undefined)
Thrown == [err |-> "TypeError", list |-> <<>>]

(* --------------------------- language filter -------------------------- *)

includes(array, x) == \E i \in 1..Len(array) : array[i] = x

\* variant: the blacklist is not consulted
allowWithoutIgnore(language, only, ignore) ==
  Len(only) = 0 \/ includes(only, language)

allow(language, only, ignore) ==
  IF Len(only) = 0 /\ Len(ignore) = 0 THEN TRUE
  ELSE (Len(only) = 0 \/ includes(only, language)) /\ ~includes(ignore, language)

allowEntry(only, ignore, e) == allow(e.name, only, ignore)

\* variant: every language is kept
filterNothing(languages, only, ignore) == languages

filterLanguages(languages, only, ignore) ==
  IF Len(only) = 0 /\ Len(ignore) = 0 THEN languages
  ELSE SelectSeq(languages, LAMBDA e : allowEntry(only, ignore, e))

\* variant: the languages that are not allowed are deleted from the mapping handed in
filterInPlace(languages, only, ignore) == filterLanguages(languages, only, ignore)

\* the mapping handed to filterLanguages, once getDistances has returned:
\* the allowed languages are copied into a new object, the loop of getDistances
\* reads languages[language], and the pairs it pushes are new arrays
languagesAfterFilter(languages, only, ignore) == languages

(* --------------------------- distance engine -------------------------- *)

\* one round of the loop of getDistance: the difference of one input trigram
difference(trigram, model) ==
  IF trigram[1] \in DOMAIN model
  THEN Abs(trigram[2] - model[trigram[1]] - 1)
  ELSE MAX_DIFFERENCE

\* variant: the place of the entry in the list is used, not its count
RECURSIVE getDistanceOfPlaces(_, _)
getDistanceOfPlaces(trigrams, model) ==
  IF trigrams = <<>> THEN 0
  ELSE LET last == Len(trigrams)
       IN  difference(<<trigrams[last][1], last - 1>>, model)
           + getDistanceOfPlaces(SubSeq(trigrams, 1, last - 1), model)

RECURSIVE getDistance(_, _)
getDistance(trigrams, model) ==
  IF trigrams = <<>> THEN 0
  ELSE difference(Head(trigrams), model) + getDistance(Tail(trigrams), model)

\* variant: the greatest distance first
sortDescending(a, b) == b[2] - a[2]

\* function sort(a, b) { return a[1] - b[1] }
sort(a, b) == a[2] - b[2]

\* variant: an element goes in front of the elements it is equal to
RECURSIVE insertBeforeEqual(_, _)
insertBeforeEqual(sorted, e) ==
  IF sorted = <<>> THEN <<e>>
  ELSE IF sort(Head(sorted), e) >= 0 THEN <<e>> \o sorted
  ELSE <<Head(sorted)>> \o insertBeforeEqual(Tail(sorted), e)

RECURSIVE insertSorted(_, _)
insertSorted(sorted, e) ==
  IF sorted = <<>> THEN <<e>>
  ELSE IF sort(Head(sorted), e) > 0 THEN <<e>> \o sorted
  ELSE <<Head(sorted)>> \o insertSorted(Tail(sorted), e)

\* distances.sort(sort) : ascending, stable
RECURSIVE sortDistances(_, _)
sortDistances(list, sorted) ==
  IF list = <<>> THEN sorted
  ELSE sortDistances(Tail(list), insertSorted(sorted, Head(list)))

\* variant: no sentinel when no language is left
getDistancesNoSentinel(trigrams, languages, only, ignore) ==
  LET filtered == filterLanguages(languages, only, ignore)
      distances ==
        [i \in 1..Len(filtered) |->
          <<filtered[i].name, getDistance(trigrams, filtered[i].trigrams)>>]
  IN  sortDistances(distances, <<>>)

getDistances(trigrams, languages, only, ignore) ==
  LET filtered == filterLanguages(languages, only, ignore)
      distances ==
        [i \in 1..Len(filtered) |->
          <<filtered[i].name, getDistance(trigrams, filtered[i].trigrams)>>]
  IN  IF Len(distances) = 0 THEN und ELSE sortDistances(distances, <<>>)

(* ------------------------------ normalize ----------------------------- *)

\* variant: the smallest distance is not subtracted
confidenceOfDistance(distance, min, max) == OrZero(OneMinus(JsDiv(distance, max)))

\* 1 - (distance - min) / max || 0
confidence(distance, min, max) == OrZero(OneMinus(JsDiv(distance - min, max)))

\* variant: the smallest distance is not taken off the greatest possible one
maxDistanceOfLength(text, min) == Len(text) * MAX_DIFFERENCE

\* value.length * MAX_DIFFERENCE - min
maxDistance(text, min) == Len(text) * MAX_DIFFERENCE - min

normalize(text, distances) ==
  IF distances = <<>> THEN Thrown  \* distances[0][1] of an empty array
  ELSE LET min == distances[1][2]
           max == maxDistance(text, min)
       IN  [err |-> "none",
            list |-> [i \in 1..Len(distances) |->
                       <<distances[i][1], confidence(distances[i][2], min, max)>>]]

(* -------------------------- script detection -------------------------- *)

\* variant: expression.test(value), which resumes at lastIndex and leaves it
\* behind the first match
matchSticky(text, script, from) ==
  LET hits == {i \in 1..Len(text) : i > from /\ Matches(script, text[i])}
  IN  IF hits = {} THEN [count |-> 0, lastIndex |-> 0]
      ELSE [count |-> 1, lastIndex |-> CHOOSE i \in hits : \A j \in hits : i <= j]

\* value.match(expression) with a global expression: the search starts at
\* index 0 whatever lastIndex was, and leaves lastIndex at 0
match(text, script, from) ==
  [count |-> Cardinality({i \in 1..Len(text) : Matches(script, text[i])})
             + Cardinality({i \in 1..(Len(text) - 1) :
                              MatchesPair(script, text[i], text[i + 1])}),
   lastIndex |-> 0]

\* (count ? count.length : 0) / value.length || 0
getOccurrence(text, script, from) ==
  LET m == match(text, script, from)
  IN  [count |-> OrZero(JsDiv(m.count, Len(text))), lastIndex |-> m.lastIndex]

\* the loop of getTopScript over scripts[k..], carrying topScript and topCount
RECURSIVE topLoop(_, _, _, _, _)
topLoop(text, scripts, k, top, li) ==
  IF k > Len(scripts) THEN top
  ELSE LET count == getOccurrence(text, scripts[k], li[scripts[k]]).count
       IN  topLoop(text, scripts, k + 1,
                   IF Gt(count, top[2]) THEN <<scripts[k], count>> ELSE top, li)

\* variant: topCount starts at 0
getTopScriptFromZero(text, scripts, li) ==
  topLoop(text, scripts, 1, <<"undefined", Num(0)>>, li)

getTopScript(text, scripts, li) == topLoop(text, scripts, 1, <<"undefined", Num(-1)>>, li)

\* lastIndex of every expression once getTopScript has matched them all
lastIndexAfter(text, scripts, li) ==
  [s \in DOMAIN li |->
    IF includes(scripts, s) THEN match(text, s, li[s]).lastIndex ELSE li[s]]

(* ------------------------------ main API ------------------------------ *)

has(object, key) == key \in DOMAIN object

\* options.key || []
arrayOption(o, key) == IF has(o, key) THEN o[key] ELSE <<>>

onlyOf(o) == arrayOption(o, "whitelist") \o arrayOption(o, "only")

ignoreOf(o) == arrayOption(o, "blacklist") \o arrayOption(o, "ignore")

\* variant: no default minimum length
minLengthOfNoDefault(o) == IF has(o, "minLength") THEN o.minLength ELSE 0

minLengthOf(o) == IF has(o, "minLength") THEN o.minLength ELSE MIN_LENGTH

\* script in numericData
inStore(script, store) == \E s \in 1..Len(store) : store[s].script = script

\* numericData[script]
modelsFor(script, store) ==
  store[CHOOSE s \in 1..Len(store) : store[s].script = script].languages

\* variant: a script that matched nothing is not told from one that matched
francAllNoRatioTest(text, o, store, li) ==
  LET only == onlyOf(o)
      ignore == ignoreOf(o)
      minLength == minLengthOf(o)
  IN  IF Len(text) = 0 \/ Len(text) < minLength THEN Returned(und)
      ELSE
        LET v == Slice0(text, MAX_LENGTH)
            script == getTopScript(v, expressions, li)
        IN  IF script[1] = "undefined" \/ ~inStore(script[1], store)
            THEN IF script[1] = "undefined" \/ ~allow(script[1], only, ignore)
                 THEN Returned(und)
                 ELSE Returned(singleLanguageTuples(script[1]))
            ELSE normalize(v, getDistances(asTuples(v), modelsFor(script[1], store),
                                           only, ignore))

francAll(text, o, store, li) ==
  LET only == onlyOf(o)
      ignore == ignoreOf(o)
      minLength == minLengthOf(o)
  IN  IF Len(text) = 0 \/ Len(text) < minLength THEN Returned(und)
      ELSE
        LET v == Slice0(text, MAX_LENGTH)
            script == getTopScript(v, expressions, li)
        IN  IF script[1] = "undefined" \/ ~inStore(script[1], store)
            THEN IF \/ script[1] = "undefined"
                    \/ script[2] = Num(0)
                    \/ ~allow(script[1], only, ignore)
                 THEN Returned(und)
                 ELSE Returned(singleLanguageTuples(script[1]))
            ELSE normalize(v, getDistances(asTuples(v), modelsFor(script[1], store),
                                           only, ignore))

\* variant: the code of the last entry
francLast(text, o, store, li) ==
  LET all == francAll(text, o, store, li)
  IN  IF all.err # "none" THEN [err |-> all.err, code |-> "undefined"]
      ELSE IF all.list = <<>> THEN [err |-> "TypeError", code |-> "undefined"]
      ELSE [err |-> "none", code |-> all.list[Len(all.list)][1]]

\* return francAll(value, options)[0][0]
franc(text, o, store, li) ==
  LET all == francAll(text, o, store, li)
  IN  IF all.err # "none" THEN [err |-> all.err, code |-> "undefined"]
      ELSE IF all.list = <<>> THEN [err |-> "TypeError", code |-> "undefined"]
      ELSE [err |-> "none", code |-> all.list[1][1]]

\* the expressions' lastIndex after a call of francAll
francAllLastIndex(text, o, li) ==
  IF Len(text) = 0 \/ Len(text) < minLengthOf(o) THEN li
  ELSE lastIndexAfter(Slice0(text, MAX_LENGTH), expressions, li)

\* numericData after a call of francAll: only getDistances is handed a part of it
francAllStore(text, o, store, li) ==
  IF Len(text) = 0 \/ Len(text) < minLengthOf(o) THEN store
  ELSE
    LET script == getTopScript(Slice0(text, MAX_LENGTH), expressions, li)
    IN  IF script[1] = "undefined" \/ ~inStore(script[1], store) THEN store
        ELSE [s \in 1..Len(store) |->
               IF store[s].script = script[1]
               THEN [store[s] EXCEPT
                       !.languages = languagesAfterFilter(@, onlyOf(o), ignoreOf(o))]
               ELSE store[s]]

(* ------------------------------- inputs ------------------------------- *)

ShortTexts == UNION {[1..n -> Alphabet] : n \in 0..MaxTextLen}

\* texts around the default minimum length
LongTexts == {[i \in 1..n |-> "a"] : n \in {MIN_LENGTH - 1, MIN_LENGTH}}

Texts == ShortTexts \cup LongTexts

\* an options object is a record that has only the keys that were given
NoOptions == <<>>

OnlyParts ==
  {NoOptions,
   [only |-> <<"spa">>],
   [only |-> <<"Cyrillic">>],
   [whitelist |-> <<"eng">>, only |-> <<"spa">>]}

IgnoreParts ==
  {NoOptions,
   [ignore |-> <<"spa">>],
   [ignore |-> <<"Cyrillic">>],
   [blacklist |-> <<"eng">>, ignore |-> <<"spa">>]}

MinLengthParts == {NoOptions, [minLength |-> 0], [minLength |-> MaxTextLen]}

OptionValues ==
  {a @@ b @@ c : a \in OnlyParts, b \in IgnoreParts, c \in MinLengthParts}

(* ---------------------------- state machine --------------------------- *)

NoResult == [err |-> "none", list |-> <<>>]

Callers == {1, 2}

\* a caller that is not inside francAll
NoCall ==
  [pc |-> "idle", text |-> <<>>, value |-> <<>>, options |-> <<>>, k |-> 0, top |-> <<>>,
   trigrams |-> <<>>, distances |-> <<>>, result |-> NoResult, crossed |-> FALSE]

NoSaved ==
  [set |-> FALSE, others |-> FALSE, value |-> <<>>, options |-> NoOptions,
   result |-> NoResult]

Init ==
  /\ data \in RawStores
  /\ numericData = <<>>
  /\ lastIndex = [s \in {expressions[k] : k \in 1..Len(expressions)} |-> 0]
  /\ pc = "load"
  /\ value = <<>>
  /\ options = NoOptions
  /\ result = NoResult
  /\ saved = NoSaved
  /\ calls = [c \in Callers |-> NoCall]

\* module load: the preprocessing loop fills numericData
Load ==
  /\ pc = "load"
  /\ numericData' = preprocess(data)
  /\ pc' = "idle"
  /\ UNCHANGED <<data, lastIndex, value, options, result, saved, calls>>

\* a caller calls francAll(v, o) and gets its result
FrancAll(v, o) ==
  /\ pc = "idle"
  /\ value' = v
  /\ options' = o
  /\ result' = francAll(v, o, numericData, lastIndex)
  /\ lastIndex' = francAllLastIndex(v, o, lastIndex)
  /\ pc' = "returned"
  /\ numericData' = francAllStore(v, o, numericData, lastIndex)
  /\ saved' = [saved EXCEPT
                !.others = saved.set /\ (@ \/ v # saved.value \/ o # saved.options)]
  /\ UNCHANGED <<data, calls>>

\* a caller calls franc(v, o) and gets a code
Franc(v, o) ==
  /\ pc = "idle"
  /\ value' = v
  /\ options' = o
  /\ result' = franc(v, o, numericData, lastIndex)
  /\ lastIndex' = francAllLastIndex(v, o, lastIndex)
  /\ numericData' = francAllStore(v, o, numericData, lastIndex)
  /\ pc' = "returned code"
  /\ saved' = [saved EXCEPT
                !.others = saved.set /\ (@ \/ v # saved.value \/ o # saved.options)]
  /\ UNCHANGED <<data, calls>>

\* a caller calls getTopScript(v, expressions) and gets [script, ratio]
GetTopScript(v) ==
  /\ pc = "idle"
  /\ value' = v
  /\ result' = [err |-> "none", script |-> getTopScript(v, expressions, lastIndex)]
  /\ lastIndex' = lastIndexAfter(v, expressions, lastIndex)
  /\ pc' = "returned script"
  /\ UNCHANGED <<data, numericData, options, saved, calls>>

\* a caller calls asTuples(v) and gets the profile
CallAsTuples(v) ==
  /\ pc = "idle"
  /\ value' = v
  /\ result' = [err |-> "none", profile |-> asTuples(v)]
  /\ pc' = "returned profile"
  /\ UNCHANGED <<data, numericData, lastIndex, options, saved, calls>>

\* a caller calls getDistance(asTuples(v), model) with the rank table of the
\* l-th Latin language
CallGetDistance(v, l) ==
  /\ pc = "idle"
  /\ inStore("Latin", numericData)
  /\ l \in 1..Len(modelsFor("Latin", numericData))
  /\ value' = v
  /\ LET trigrams == asTuples(v)
         model == modelsFor("Latin", numericData)[l].trigrams
     IN  result' = [err |-> "none", profile |-> trigrams, model |-> model,
                    distance |-> getDistance(trigrams, model)]
  /\ pc' = "returned distance"
  /\ UNCHANGED <<data, numericData, lastIndex, options, saved, calls>>

\* a caller calls getDistances(asTuples(v), numericData.Latin, only, ignore)
CallGetDistances(v, o) ==
  /\ pc = "idle"
  /\ inStore("Latin", numericData)
  /\ value' = v
  /\ options' = o
  /\ LET trigrams == asTuples(v)
     IN  result' = [err |-> "none", profile |-> trigrams,
                    distances |-> getDistances(trigrams, modelsFor("Latin", numericData),
                                               onlyOf(o), ignoreOf(o))]
  /\ pc' = "returned distances"
  /\ UNCHANGED <<data, numericData, lastIndex, saved, calls>>

\* a caller calls getDistance with the entries of asTuples(v) in another order
CallGetDistanceInOrder(v, l, order) ==
  /\ pc = "idle"
  /\ inStore("Latin", numericData)
  /\ l \in 1..Len(modelsFor("Latin", numericData))
  /\ DOMAIN order = DOMAIN asTuples(v)
  /\ value' = v
  /\ LET trigrams == [i \in DOMAIN order |-> asTuples(v)[order[i]]]
         model == modelsFor("Latin", numericData)[l].trigrams
     IN  result' = [err |-> "none", profile |-> trigrams, model |-> model,
                    distance |-> getDistance(trigrams, model)]
  /\ pc' = "returned distance"
  /\ UNCHANGED <<data, numericData, lastIndex, options, saved, calls>>

\* the caller drops the result
Return ==
  /\ pc \notin {"load", "idle"}
  /\ pc' = "idle"
  /\ value' = <<>>
  /\ options' = NoOptions
  /\ result' = NoResult
  /\ UNCHANGED <<data, numericData, lastIndex, saved, calls>>

\* the caller keeps the call that has just returned, to compare later calls with it
Remember ==
  /\ pc = "returned"
  /\ saved' = [set |-> TRUE, others |-> FALSE, value |-> value, options |-> options,
               result |-> result]
  /\ UNCHANGED <<data, numericData, lastIndex, pc, value, options, result, calls>>

Next ==
  \/ Load
  \/ \E v \in Texts, o \in OptionValues : FrancAll(v, o)
  \/ Return

Spec == Init /\ [][Next]_vars

(* ----------- repeated calls: a smaller input space, call pairs --------- *)

\* stores whose two languages list one trigram each
PairStores ==
  {st \in RawStores :
     /\ Len(st[1].languages) = Len(LatinNames)
     /\ \A l \in 1..Len(st[1].languages) : st[1].languages[l].model \in ModelTrigrams}

PairOptions ==
  {a @@ c : a \in {NoOptions, [only |-> <<"spa">>]},
            c \in {NoOptions, [minLength |-> 0]}}

InitPairs == Init /\ data \in PairStores

NextPairs ==
  \/ Load
  \/ \E v \in Texts, o \in PairOptions : FrancAll(v, o)
  \/ Remember
  \/ Return

SpecPairs == InitPairs /\ [][NextPairs]_vars

(* ------ scripts with and without models, filters that name a script ----- *)

\* data whose one language is filed under the script that `expressions` lists first
FirstScriptStores == {ScriptData(expressions[1], <<m>>) : m \in ModelTrigrams}

ScriptOptions ==
  {a @@ b @@ c :
     a \in {NoOptions, [only |-> <<"Cyrillic">>], [only |-> <<"spa">>]},
     b \in {NoOptions, [ignore |-> <<"Cyrillic">>]},
     c \in {NoOptions, [minLength |-> 0]}}

NextScripts ==
  \/ Load
  \/ \E v \in Texts, o \in ScriptOptions : FrancAll(v, o)
  \/ Return

\* the stores of two Latin languages
SpecScripts == InitPairs /\ [][NextScripts]_vars

\* ... and the stores whose language is filed under the first script
InitFirstScript ==
  /\ data \in PairStores \cup FirstScriptStores
  /\ numericData = <<>>
  /\ lastIndex = [s \in {expressions[k] : k \in 1..Len(expressions)} |-> 0]
  /\ pc = "load"
  /\ value = <<>>
  /\ options = NoOptions
  /\ result = NoResult
  /\ saved = NoSaved
  /\ calls = [c \in Callers |-> NoCall]

SpecFirstScript == InitFirstScript /\ [][NextScripts]_vars

(* ------- long texts: counts around MAX_DIFFERENCE, lengths around ------ *)
(* ------- MAX_LENGTH                                                ------ *)

\* unit repeated up to n characters: 'a a a ...'
Repeat(unit, n) == [i \in 1..n |-> unit[((i - 1) % Len(unit)) + 1]]

Tails == UNION {[1..n -> {"a", "x"}] : n \in 0..MaxTailLen}

\* 2 * MAX_DIFFERENCE characters 'a a ... a ' hold the trigram ' a ' MAX_DIFFERENCE
\* times; MAX_LENGTH characters and a tail are cut by francAll
VeryLongTexts ==
  {Repeat(unit, n) \o tail :
     unit \in {<<"a">>, <<"a", " ">>},
     n \in {2 * MAX_DIFFERENCE, MAX_LENGTH},
     tail \in Tails}

LongOptions ==
  {NoOptions,
   [only |-> <<"spa">>],
   [ignore |-> <<"spa">>],
   [minLength |-> MAX_LENGTH],
   [minLength |-> MAX_LENGTH + 1]}

NextLong ==
  \/ Load
  \/ \E v \in VeryLongTexts, o \in LongOptions : FrancAll(v, o)
  \/ Return

SpecLong == InitPairs /\ [][NextLong]_vars

(* --------------------- getTopScript on its own ------------------------- *)

\* UTF-16 units: a Latin and a Cyrillic letter, a Han character, the two
\* surrogates of a Han character outside the basic plane, a space
Units == {"a", "x", "4E2D", "D840", "DC00", " "}

UnitTexts == UNION {[1..n -> Units] : n \in 0..MaxTextLen}

NextTopScript ==
  \/ Load
  \/ \E v \in UnitTexts : GetTopScript(v)
  \/ Return

SpecTopScript == InitPairs /\ [][NextTopScript]_vars

(* ------------------------ asTuples on its own -------------------------- *)

\* the texts of Texts and those one character longer
ProfileTexts == Texts \cup [1..(MaxTextLen + 1) -> Alphabet]

NextProfile ==
  \/ Load
  \/ \E v \in ProfileTexts : CallAsTuples(v)
  \/ Return

SpecProfile == InitPairs /\ [][NextProfile]_vars

(* ----------------------- getDistance on its own ------------------------ *)

NextDistance ==
  \/ Load
  \/ \E v \in ProfileTexts, l \in 1..Len(LatinNames) : CallGetDistance(v, l)
  \/ Return

SpecDistance == InitPairs /\ [][NextDistance]_vars

(* ----------------------- getDistances on its own ----------------------- *)

FilterOptions ==
  {NoOptions, [only |-> <<"spa">>], [ignore |-> <<"spa">>], [only |-> <<"eng", "spa">>],
   [only |-> <<"spa">>, ignore |-> <<"spa">>]}

NextDistances ==
  \/ Load
  \/ \E v \in Texts, o \in FilterOptions : CallGetDistances(v, o)
  \/ Return

SpecDistances == InitPairs /\ [][NextDistances]_vars

(* ------------- getDistance on a profile in another order -------------- *)

\* the ways of putting n entries in a row
Orders(n) == {f \in [1..n -> 1..n] : \A i, j \in 1..n : f[i] = f[j] => i = j}

\* the profiles of up to this many entries are put in every order
MaxProfileLen == MaxTextLen + 2

InOrders == UNION {Orders(n) : n \in 0..MaxProfileLen}

NextOrder ==
  \/ Load
  \/ \E v \in Texts, l \in 1..Len(LatinNames) : CallGetDistance(v, l)
  \/ \E v \in Texts, l \in 1..Len(LatinNames), order \in InOrders :
        CallGetDistanceInOrder(v, l, order)
  \/ Return

SpecOrder == InitPairs /\ [][NextOrder]_vars

(* ---------------- franc and francAll on the same input ---------------- *)

\* texts of Latin and Cyrillic letters
StepTexts == UNION {[1..n -> {"a", "x"}] : n \in 0..MaxTextLen}

FrancTexts == StepTexts \cup LongTexts

NextFranc ==
  \/ Load
  \/ \E v \in FrancTexts, o \in PairOptions : FrancAll(v, o)
  \/ Remember
  \/ \E v \in FrancTexts, o \in PairOptions : Franc(v, o)
  \/ Return

SpecFranc == InitPairs /\ [][NextFranc]_vars

(* ------------ calls in progress together, statement by statement ------- *)

StepOptions == {NoOptions, [minLength |-> 0]}

\* caller c takes a step that leaves it at `next`; a call of another caller that is
\* in progress has now had a step of c between two of its own
Step(c, next) ==
  calls' = [d \in Callers |->
             IF d = c THEN next
             ELSE IF calls[d].pc \in {"idle", "done"} THEN calls[d]
             ELSE [calls[d] EXCEPT !.crossed = TRUE]]

\* francAll is entered: the options are read, the text is validated and cut
StartCall(c, v, o) ==
  /\ pc = "idle"
  /\ calls[c].pc = "idle"
  /\ IF Len(v) = 0 \/ Len(v) < minLengthOf(o)
     THEN Step(c, [NoCall EXCEPT !.pc = "done", !.text = v, !.value = v, !.options = o,
                                 !.result = Returned(und)])
     ELSE Step(c, [NoCall EXCEPT !.pc = "scripts", !.text = v,
                                 !.value = Slice0(v, MAX_LENGTH), !.options = o,
                                 !.k = 1, !.top = <<"undefined", Num(-1)>>])
  /\ UNCHANGED <<data, numericData, lastIndex, pc, value, options, result, saved>>

\* one round of the loop of getTopScript; value.match(expression) is one step
ScriptStep(c) ==
  /\ calls[c].pc = "scripts"
  /\ calls[c].k <= Len(expressions)
  /\ LET script == expressions[calls[c].k]
         occurrence == getOccurrence(calls[c].value, script, lastIndex[script])
     IN  /\ lastIndex' = [lastIndex EXCEPT ![script] = occurrence.lastIndex]
         /\ Step(c, [calls[c] EXCEPT
                       !.k = @ + 1,
                       !.top = IF Gt(occurrence.count, @[2])
                               THEN <<script, occurrence.count>> ELSE @])
  /\ UNCHANGED <<data, numericData, pc, value, options, result, saved>>

\* getTopScript has returned: a script without models ends the call
ScriptFound(c) ==
  /\ calls[c].pc = "scripts"
  /\ calls[c].k > Len(expressions)
  /\ LET script == calls[c].top
         only == onlyOf(calls[c].options)
         ignore == ignoreOf(calls[c].options)
     IN  IF script[1] = "undefined" \/ ~inStore(script[1], numericData)
         THEN Step(c, [calls[c] EXCEPT
                         !.pc = "done",
                         !.result = IF \/ script[1] = "undefined"
                                       \/ script[2] = Num(0)
                                       \/ ~allow(script[1], only, ignore)
                                    THEN Returned(und)
                                    ELSE Returned(singleLanguageTuples(script[1]))])
         ELSE Step(c, [calls[c] EXCEPT !.pc = "trigrams"])
  /\ UNCHANGED <<data, numericData, lastIndex, pc, value, options, result, saved>>

AsTuples(c) ==
  /\ calls[c].pc = "trigrams"
  /\ Step(c, [calls[c] EXCEPT !.pc = "distances", !.trigrams = asTuples(calls[c].value)])
  /\ UNCHANGED <<data, numericData, lastIndex, pc, value, options, result, saved>>

\* getDistances is handed numericData[script]
GetDistances(c) ==
  /\ calls[c].pc = "distances"
  /\ LET script == calls[c].top[1]
         only == onlyOf(calls[c].options)
         ignore == ignoreOf(calls[c].options)
     IN  /\ Step(c, [calls[c] EXCEPT
                       !.pc = "normalize",
                       !.distances = getDistances(calls[c].trigrams,
                                                  modelsFor(script, numericData),
                                                  only, ignore)])
         /\ numericData' =
              [s \in 1..Len(numericData) |->
                IF numericData[s].script = script
                THEN [numericData[s] EXCEPT
                        !.languages = languagesAfterFilter(@, only, ignore)]
                ELSE numericData[s]]
  /\ UNCHANGED <<data, lastIndex, pc, value, options, result, saved>>

Normalize(c) ==
  /\ calls[c].pc = "normalize"
  /\ Step(c, [calls[c] EXCEPT
                !.pc = "done", !.result = normalize(calls[c].value, calls[c].distances)])
  /\ UNCHANGED <<data, numericData, lastIndex, pc, value, options, result, saved>>

\* the caller has the result and may call again
TakeResult(c) ==
  /\ calls[c].pc = "done"
  /\ Step(c, NoCall)
  /\ UNCHANGED <<data, numericData, lastIndex, pc, value, options, result, saved>>

NextSteps ==
  \/ Load
  \/ \E c \in Callers, v \in StepTexts, o \in StepOptions : StartCall(c, v, o)
  \/ \E c \in Callers : ScriptStep(c)
  \/ \E c \in Callers : ScriptFound(c)
  \/ \E c \in Callers : AsTuples(c)
  \/ \E c \in Callers : GetDistances(c)
  \/ \E c \in Callers : Normalize(c)
  \/ \E c \in Callers : TakeResult(c)

SpecSteps == InitPairs /\ [][NextSteps]_vars

(* ====================================================================== *)
(*                               properties                               *)
(* ====================================================================== *)

\* the codes the caller allows / excludes, legacy aliases included
OnlyCodes(o) ==
  UNION {{o[k][i] : i \in 1..Len(o[k])} : k \in {"whitelist", "only"} \cap DOMAIN o}

IgnoreCodes(o) ==
  UNION {{o[k][i] : i \in 1..Len(o[k])} : k \in {"blacklist", "ignore"} \cap DOMAIN o}

PassesFilter(code, o) ==
  (OnlyCodes(o) = {} \/ code \in OnlyCodes(o)) /\ code \notin IgnoreCodes(o)

\* options.minLength when it is given, otherwise the default
EffectiveMinLength(o) == IF "minLength" \in DOMAIN o THEN o.minLength ELSE MIN_LENGTH

\* the list [("und", 1.0)], returned normally
UndResult == [err |-> "none", list |-> <<<<"und", [n |-> 1, d |-> 1]>>>>]

Codes(r) == {r.list[i][1] : i \in 1..Len(r.list)}

\* the call that has just returned went through the trigram analysis: the text
\* was long enough and the script found for it has models in the store
DetectedScript == getTopScript(Slice0(value, MAX_LENGTH), expressions, lastIndex)[1]

OnTrigramPath ==
  /\ pc = "returned"
  /\ value # <<>>
  /\ Len(value) >= EffectiveMinLength(options)
  /\ inStore(DetectedScript, numericData)

\* ... and the filter left none of that script's languages
NoSurvivor ==
  /\ OnTrigramPath
  /\ \A l \in 1..Len(modelsFor(DetectedScript, numericData)) :
       ~PassesFilter(modelsFor(DetectedScript, numericData)[l].name, options)

\* a trigram list as the build must refuse it: empty, or one trigram twice
HasDuplicate(list) == \E i, j \in 1..Len(list) : i < j /\ list[i] = list[j]

Malformed(raw) == raw = <<>> \/ HasDuplicate(split(raw))

MalformedData ==
  \E s \in 1..Len(data) : \E l \in 1..Len(data[s].languages) :
    Malformed(data[s].languages[l].model)

\* C1: every call of francAll, whatever the text (the empty one included), the
\* options and the store, returns a list with at least one entry.
C1_NeverEmpty == pc = "returned" => Len(result.list) >= 1

C1_EmptyTextWitness == pc = "returned" /\ value = <<>> /\ Len(result.list) = 1

C3_ConfidenceInUnitInterval ==
  (pc = "returned" /\ ~MalformedData) =>
    \A i \in 1..Len(result.list) :
      LET c == result.list[i][2] IN c.d > 0 /\ 0 <= c.n /\ c.n <= c.d

\* C4: the returned list is ordered by non-increasing confidence.
\* (Stated for the stores built from well-formed data, as C3.)
C4_NonIncreasingConfidence ==
  (pc = "returned" /\ ~MalformedData) =>
    \A i \in 1..(Len(result.list) - 1) :
      Geq(result.list[i][2], result.list[i + 1][2])

\* C5: every returned code is "und" or passes the filter: (only is empty or
\* holds the code) and ignore does not hold it.
C5_CodesPassFilter ==
  pc = "returned" => \A code \in Codes(result) : code = "und" \/ PassesFilter(code, options)

C5_OnlySpaWitness ==
  /\ OnTrigramPath
  /\ OnlyCodes(options) = {"spa"}
  /\ Len(modelsFor(DetectedScript, numericData)) = 2
  /\ Codes(result) = {"spa"}

\* C6: when no candidate language survives the filter, and whenever only and
\* ignore name the same single language, the result is exactly [("und", 1)]:
\* the sentinel of getDistances keeps its confidence 1 through normalize.
C6_NoSurvivorIsUnd ==
  (/\ pc = "returned"
   /\ \/ NoSurvivor
      \/ \E L \in OnlyCodes(options) : OnlyCodes(options) = {L} /\ L \in IgnoreCodes(options))
    => result = UndResult

C6_AllFilteredWitness ==
  /\ NoSurvivor
  /\ Len(modelsFor(DetectedScript, numericData)) = 2
  /\ result = UndResult

\* C7: francAll never throws: every call ends with an ordinary result list, also
\* for a text that is too short, matches no script, or loses every candidate.
C7_NeverThrows == pc = "returned" => result.err = "none"

C7_NoScriptWitness ==
  /\ pc = "returned"
  /\ value = <<" ">>
  /\ EffectiveMinLength(options) = 0
  /\ result = UndResult

\* C8: a call with the same text and the same options as an earlier call returns
\* the same list, whatever calls were made in between.
C8_SameInputSameOutput ==
  (pc = "returned" /\ saved.set /\ saved.value = value /\ saved.options = options)
    => saved.result = result

C8_RepeatedCallWitness ==
  /\ pc = "returned"
  /\ saved.set
  /\ saved.others
  /\ saved.value = value
  /\ saved.options = options
  /\ Len(result.list) = 2

\* C9: malformed raw data (a duplicate trigram in one language's list, or an
\* empty list) is rejected when the store is built: no store is produced and
\* detection never runs.
C9_MalformedDataRejected == MalformedData => (pc = "load" /\ numericData = <<>>)

\* C10: the rank table of a model with N trigrams maps the trigram at position
\* i to rank i, for every i in 0..N-1.
C10_RankIsPosition ==
  pc # "load" =>
    \A s \in 1..Len(data) : \A l \in 1..Len(data[s].languages) :
      LET model == split(data[s].languages[l].model)
          table == numericData[s].languages[l].trigrams
      IN  \A i \in 1..Len(model) : table[model[i]] = i - 1

\* the trigram profile of the text of the call that has just returned
Profile == asTuples(Slice0(value, MAX_LENGTH))

\* the rank tables of the store
RankTables ==
  UNION {{numericData[s].languages[l].trigrams : l \in 1..Len(numericData[s].languages)} :
           s \in 1..Len(numericData)}

\* the model holds at least one trigram of the profile
Shares(profile, model) == \E i \in 1..Len(profile) : profile[i][1] \in DOMAIN model

\* C11: for a non-empty profile, a model that holds at least one of the
\* profile's trigrams gets a strictly lower getDistance than a model that
\* holds none of them (every trigram then costs MAX_DIFFERENCE), whatever the
\* trigram counts and the model ranks.
C11_SharedTrigramLowersDistance ==
  (pc = "returned" /\ value # <<>>) =>
    \A A, B \in RankTables :
      (Shares(Profile, A) /\ ~Shares(Profile, B))
        => getDistance(Profile, A) < getDistance(Profile, B)

\* C12 as stated: a text longer than MAX_LENGTH gives, under every options
\* value, what its first MAX_LENGTH characters give.
C12_LongTextAsItsPrefix ==
  (pc = "returned" /\ Len(value) > MAX_LENGTH)
    => result = francAll(SubSeq(value, 1, MAX_LENGTH), options, numericData, lastIndex)

\* C12, amended: ... under every options value whose minimum length is at
\* most MAX_LENGTH.
C12_LongTextAsItsPrefixIfLongEnough ==
  (pc = "returned" /\ Len(value) > MAX_LENGTH /\ EffectiveMinLength(options) <= MAX_LENGTH)
    => result = francAll(SubSeq(value, 1, MAX_LENGTH), options, numericData, lastIndex)

C12_CutTailWitness ==
  /\ pc = "returned"
  /\ Len(value) > MAX_LENGTH
  /\ value[Len(value)] = "x"
  /\ EffectiveMinLength(options) = MAX_LENGTH
  /\ Len(result.list) = 2

\* what getTopScript returned to the call that has just returned
TopScript == getTopScript(Slice0(value, MAX_LENGTH), expressions, lastIndex)

\* the call that has just returned got as far as the script detection
ScriptDetected ==
  /\ pc = "returned"
  /\ value # <<>>
  /\ Len(value) >= EffectiveMinLength(options)

\* the list [(code, 1)], returned normally
Single(code) == [err |-> "none", list |-> <<<<code, [n |-> 1, d |-> 1]>>>>]

\* C13 as stated: whenever the script that getTopScript chose has the ratio 0
\* (no character matches any expression), francAll returns [("und", 1)],
\* whichever script comes first and whether or not it has models in the store.
C13_ZeroRatioIsUnd ==
  (ScriptDetected /\ TopScript[2] = Num(0)) => result = UndResult

\* C13, amended: ... provided the chosen script, which is then the first of
\* `expressions`, has no models in the store.
C13_ZeroRatioWithoutModelsIsUnd ==
  (ScriptDetected /\ TopScript[2] = Num(0) /\ ~inStore(TopScript[1], numericData))
    => result = UndResult

C13_NothingMatchesWitness ==
  /\ ScriptDetected
  /\ value = <<" ", " ">>
  /\ TopScript = <<expressions[1], Num(0)>>
  /\ inStore("Latin", numericData)
  /\ PassesFilter(expressions[1], options)
  /\ result = UndResult

LanguageScripts == {"cmn", "ben", "jpn", "kor", "tha", "hye", "ell"}

StoreIndex(code) ==
  CHOOSE l \in 1..Len(modelsFor(DetectedScript, numericData)) :
    modelsFor(DetectedScript, numericData)[l].name = code

\* the distance of the language `code` to the profile of the text
DistanceOf(code) ==
  getDistance(Profile, modelsFor(DetectedScript, numericData)[StoreIndex(code)].trigrams)

\* the call that has just returned ranked at least one language
Ranked == OnTrigramPath /\ ~NoSurvivor

FreshLastIndex == [s \in {expressions[k] : k \in 1..Len(expressions)} |-> 0]

\* C18: whatever steps of other calls came between the steps of a call, the call
\* returns what francAll returns for its text and options when nothing else runs
C18_InterleavedAsAlone ==
  \A c \in Callers :
    calls[c].pc = "done" =>
      calls[c].result =
        francAll(calls[c].text, calls[c].options, preprocess(data), FreshLastIndex)

\* a call that ranked two languages has returned after steps of another call, which
\* is still matching expressions against another text
C18_CrossedCallsWitness ==
  /\ calls[1].pc = "done"
  /\ calls[1].crossed
  /\ Len(calls[1].result.list) = 2
  /\ calls[2].pc = "scripts"
  /\ calls[2].crossed
  /\ calls[2].k > 1
  /\ calls[2].text # calls[1].text

\* C19: franc gives the code of the first entry of what francAll gave for the same
\* text and options, and that code is "und" exactly when the entry is ("und", 1)
C19_FrancIsFirstOfFrancAll ==
  (/\ pc = "returned code"
   /\ saved.set
   /\ saved.value = value
   /\ saved.options = options)
  => /\ result.err = saved.result.err
     /\ result.err = "none" =>
          /\ saved.result.list # <<>>
          /\ result.code = saved.result.list[1][1]
          /\ result.code = "und" <=> saved.result.list[1] = <<"und", Num(1)>>

\* franc has returned a language for a text that francAll ranked two languages for,
\* other calls having come between the two
C19_FrancAfterFrancAllWitness ==
  /\ pc = "returned code"
  /\ saved.set
  /\ saved.others
  /\ saved.value = value
  /\ saved.options = options
  /\ Len(saved.result.list) = 2
  /\ result.code \in {"spa", "eng"}

\* the unit at position i is part of a match of the script's expression
Covered(text, script, i) ==
  \/ Matches(script, text[i])
  \/ i < Len(text) /\ MatchesPair(script, text[i], text[i + 1])
  \/ i > 1 /\ MatchesPair(script, text[i - 1], text[i])

\* the number of matches of the script's expression in the text
MatchCount(text, script) ==
  Cardinality({i \in 1..Len(text) : Matches(script, text[i])})
  + Cardinality({i \in 1..(Len(text) - 1) : MatchesPair(script, text[i], text[i + 1])})

\* the script and ratio returned are those of script number k
IsTop(k) ==
  /\ result.script[1] = expressions[k]
  /\ result.script[2] = Rat(MatchCount(value, expressions[k]), Len(value))
  /\ \A j \in 1..Len(expressions) :
       /\ MatchCount(value, expressions[j]) <= MatchCount(value, expressions[k])
       /\ j < k => MatchCount(value, expressions[j]) < MatchCount(value, expressions[k])

\* C20: getTopScript returns the script of the greatest ratio matchCount/len(text),
\* the earliest of those that share it, with that ratio, which lies in [0,1] and is
\* 1 when every character of the text matches that script's expression only
C20_TopScriptAndRatio ==
  (pc = "returned script" /\ value # <<>>) =>
    /\ \E k \in 1..Len(expressions) : IsTop(k)
    /\ 0 <= result.script[2].n
    /\ result.script[2].n <= result.script[2].d
    /\ \A k \in 1..Len(expressions) :
         (\A i \in 1..Len(value) :
            /\ Covered(value, expressions[k], i)
            /\ \A j \in 1..Len(expressions) :
                 j # k => ~Covered(value, expressions[j], i))
         => result.script = <<expressions[k], Num(1)>>

\* no expression matches anything in the text
NothingMatches ==
  \A k \in 1..Len(expressions) : MatchCount(value, expressions[k]) = 0

\* C21: when no script matches any character of the text, the empty text included,
\* getTopScript returns no script id and the ratio 0
C21_NoMatchIsNoScript ==
  (pc = "returned script" /\ NothingMatches) =>
    result.script = <<"undefined", Num(0)>>

\* C21, amended: ... getTopScript returns the script listed first, with the ratio 0
C21_NoMatchIsFirstScript ==
  (pc = "returned script" /\ NothingMatches) =>
    result.script = <<expressions[1], Num(0)>>

\* getTopScript has returned for a text of one space
C21_SpaceWitness ==
  /\ pc = "returned script"
  /\ value = <<" ">>
  /\ NothingMatches
  /\ result.script[2] = Num(0)

\* the lower-cased, padded text of the call and its stride-1 windows
Padded == toLowerCase(<<" ">> \o value \o <<" ">>)

Window(k) == SubSeq(Padded, k, k + 2)

Windows == 1..(Len(Padded) - 2)

RECURSIVE SumCounts(_)
SumCounts(profile) ==
  IF profile = <<>> THEN 0 ELSE Head(profile)[2] + SumCounts(Tail(profile))

\* one pair for each distinct window, with the number of windows equal to it,
\* the greatest count first
IsProfileOfWindows(profile) ==
  /\ \A i, j \in 1..Len(profile) : i # j => profile[i][1] # profile[j][1]
  /\ {profile[i][1] : i \in 1..Len(profile)} = {Window(k) : k \in Windows}
  /\ \A i \in 1..Len(profile) :
       profile[i][2] = Cardinality({k \in Windows : Window(k) = profile[i][1]})
  /\ \A i \in 1..(Len(profile) - 1) : profile[i][2] >= profile[i + 1][2]

\* C22: asTuples returns one pair for each distinct window of the lower-cased padded
\* text with the number of windows equal to it, in non-increasing count order; the
\* counts sum to the length of the text, and the empty text has the empty profile
C22_ProfileOfWindows ==
  pc = "returned profile" =>
    /\ IsProfileOfWindows(result.profile)
    /\ SumCounts(result.profile) = Len(value)
    /\ value = <<>> => result.profile = <<>>

\* the sum over profile[i..] of |position - rank - 1| for a trigram the model holds
\* and of MAX_DIFFERENCE for one it lacks, positions counted from 0
RECURSIVE PositionSum(_, _, _)
PositionSum(profile, model, i) ==
  IF i > Len(profile) THEN 0
  ELSE (IF profile[i][1] \in DOMAIN model
        THEN Abs((i - 1) - model[profile[i][1]] - 1)
        ELSE MAX_DIFFERENCE)
       + PositionSum(profile, model, i + 1)

\* C23: getDistance is the sum over all entries of the profile of
\* |inputRank - modelRank - 1| for a trigram of the rank table and 300 otherwise,
\* inputRank being the entry's 0-based position in the profile and not its count;
\* the distance is an integer >= 0
C23_DistanceOfPositions ==
  pc = "returned distance" =>
    /\ result.distance = PositionSum(result.profile, result.model, 1)
    /\ result.distance \in Nat

\* the Latin languages of the store, in the order of the store
LatinModels == modelsFor("Latin", numericData)

\* the place of the language `code` among the Latin languages of the store
LatinIndex(code) == CHOOSE l \in 1..Len(LatinModels) : LatinModels[l].name = code

\* some Latin language of the store passes the filter of the call
SomeSurvivor ==
  \E l \in 1..Len(LatinModels) : PassesFilter(LatinModels[l].name, options)

\* C24: when a language survives the filter, getDistances returns (language,
\* distance) pairs in ascending order of distance, two languages at the same
\* distance in the order of the script's model mapping
C24_AscendingAndStable ==
  (pc = "returned distances" /\ SomeSurvivor) =>
    LET d == result.distances
    IN  /\ \A i \in 1..Len(d) :
             /\ \E l \in 1..Len(LatinModels) : LatinModels[l].name = d[i][1]
             /\ d[i][2] = getDistance(result.profile, LatinModels[LatinIndex(d[i][1])].trigrams)
        /\ \A i, j \in 1..Len(d) :
             i < j =>
               /\ d[i][2] <= d[j][2]
               /\ d[i][2] = d[j][2] => LatinIndex(d[i][1]) < LatinIndex(d[j][1])

\* both languages of the store are at the same distance from a text that holds
\* a trigram of theirs
C24_SameDistanceWitness ==
  /\ pc = "returned distances"
  /\ Len(result.distances) = 2
  /\ Shares(result.profile, LatinModels[1].trigrams)
  /\ result.distances[1][2] = result.distances[2][2]

\* the length of the text once francAll has cut it
TruncatedLength == IF Len(value) > MAX_LENGTH THEN MAX_LENGTH ELSE Len(value)

\* what getDistances handed to normalize in the call that has just returned
SortedDistances ==
  getDistances(Profile, modelsFor(DetectedScript, numericData),
               onlyOf(options), ignoreOf(options))

\* C25: normalize gives each entry the confidence 1 - (distance - min) / max, min
\* being the distance of the first entry and max = len * 300 - min with len the
\* length of the truncated text; codes and order of the entries are kept
C25_ConfidenceFormula ==
  Ranked =>
    LET sorted == SortedDistances
        min == sorted[1][2]
        max == TruncatedLength * 300 - min
    IN  /\ Len(result.list) = Len(sorted)
        /\ \A i \in 1..Len(sorted) :
             /\ result.list[i][1] = sorted[i][1]
             /\ max # 0 => result.list[i][2] = Rat(max - (sorted[i][2] - min), max)

\* a text longer than MAX_LENGTH got two languages, the second with a confidence
\* strictly between 0 and 1
C25_LongTextWitness ==
  /\ Ranked
  /\ Len(value) > MAX_LENGTH
  /\ Len(result.list) = 2
  /\ result.list[2][2].n > 0
  /\ result.list[2][2].n < result.list[2][2].d

\* C26: whenever max is 0, so that (distance - min) / max is 0/0 or x/0, normalize
\* stores the confidence 0; no NaN or infinity is ever stored as a confidence.
\* (Stated for the stores built from well-formed data, as C3.)
C26_UndefinedQuotientIsZero ==
  (Ranked /\ ~MalformedData) =>
    LET sorted == SortedDistances
        max == TruncatedLength * 300 - sorted[1][2]
    IN  \A i \in 1..Len(result.list) :
          /\ max = 0 => result.list[i][2] = Num(0)
          /\ result.list[i][2].d # 0

\* the languages of the detected script's models that the filter of the call lets pass
Survivors ==
  LET models == modelsFor(DetectedScript, numericData)
  IN  {models[l].name : l \in {k \in 1..Len(models) : PassesFilter(models[k].name, options)}}

\* C27: when the trigram analysis ranks at least one language, the codes of the
\* result are the languages of the detected script that pass the filter, each
\* once, without "und"; the script id need not pass the filter
C27_CodesAreSurvivors ==
  Ranked =>
    /\ Codes(result) = Survivors
    /\ Len(result.list) = Cardinality(Survivors)
    /\ "und" \notin Codes(result)

\* only = ["spa"] gave the one-entry list for spa, Latin itself not being allowed
C27_OnlyOneLanguageWitness ==
  /\ Ranked
  /\ OnlyCodes(options) = {"spa"}
  /\ ~PassesFilter(DetectedScript, options)
  /\ Len(result.list) = 1
  /\ result.list[1][1] = "spa"
  /\ Len(modelsFor(DetectedScript, numericData)) = 2

\* C28: the first entry of a ranked result has the confidence 1 whenever the
\* smallest distance differs from len(text) * 300, one remaining candidate included;
\* it has the confidence 0 only when the smallest distance is len(text) * 300, and
\* then every entry has the confidence 0.
\* (Stated for the stores built from well-formed data, as C3.)
C28_FirstConfidence ==
  (Ranked /\ ~MalformedData) =>
    LET min == SortedDistances[1][2]
        full == TruncatedLength * 300
    IN  /\ min # full => result.list[1][2] = Num(1)
        /\ result.list[1][2] = Num(0) =>
             /\ min = full
             /\ \A i \in 1..Len(result.list) : result.list[i][2] = Num(0)

\* C29: for a rank table of at most MAX_DIFFERENCE trigrams and the profile of any
\* text, getDistance is at most len(text) * 300 (so that max = len(text) * 300 - min
\* is not negative and distance - min is at most max)
C29_DistanceAtMostLengthTimesPenalty ==
  (pc = "returned distance" /\ Cardinality(DOMAIN result.model) <= MAX_DIFFERENCE) =>
    result.distance <= Len(value) * MAX_DIFFERENCE

\* the entries of the list, whatever their order
Entries(list) == {list[i] : i \in 1..Len(list)}

====
